---- MODULE Spec2Model ----
(***************************************************************************)
(* Model of the Playwright end-to-end suite for HQ Admin.                  *)
(*                                                                         *)
(* Part 1: the session cache of tests/auth.setup.ts (isTokenExpired and    *)
(* the 'authenticate HQ Admin' setup test), the auth file paths of         *)
(* config.ts, and the project graph of playwright.config.ts (the 'setup'   *)
(* project as a dependency of the 'chromium' project).                     *)
(*                                                                         *)
(* Time is in milliseconds since the epoch, as Date.now() and mtimeMs      *)
(* report it; a JWT exp claim is in seconds.  Strings that the code        *)
(* searches (localStorage keys) are sequences of characters, so that       *)
(* String.prototype.includes is computed and not assumed.                  *)
(***************************************************************************)
EXTENDS Integers, Sequences, FiniteSets, TLC

----------------------------------------------------------------------------
(* Bounds of the model *)

\* longest origins list of an initial snapshot file
MaxOrigins == 2
\* most localStorage entries of an initial snapshot file, over all its origins
MaxEntries == 2
\* number of test runs (invocations of the runner) in one behaviour
MaxRuns == 2
\* number of times the clock may be advanced between runs
MaxElapse == 2

----------------------------------------------------------------------------
(* Strings *)

\* String.prototype.includes: sub occurs in s as a contiguous, case-sensitive
\* run of characters
includes(s, sub) ==
    \E i \in 1..(Len(s) - Len(sub) + 1) : SubSeq(s, i, i + Len(sub) - 1) = sub

Str_token == <<"t","o","k","e","n">>
Str_auth  == <<"a","u","t","h">>

\* localStorage keys that occur in the model
Key_token    == <<"t","o","k","e","n">>
Key_authUser == <<"a","u","t","h","U","s","e","r">>
Key_Token    == <<"T","o","k","e","n">>
\* the feature flag the setup writes: 'hq-admin.campaignAi'
Key_campaignAi ==
    <<"h","q","-","a","d","m","i","n",".","c","a","m","p","a","i","g","n","A","i">>

----------------------------------------------------------------------------
(* Time *)

HourMs == 60 * 60 * 1000

\* const maxAgeMs = 23 * 60 * 60 * 1000
maxAgeMs == 23 * 60 * 60 * 1000

\* Date.now() when the first run begins
StartMs == 100 * HourMs

\* exp claims (Unix seconds) that occur in initial snapshot files: ten seconds
\* before the first run begins, and one hour after it
ExpPast   == (StartMs \div 1000) - 10
ExpFuture == (StartMs \div 1000) + 3600

----------------------------------------------------------------------------
(* Snapshot files *)

\* One '.'-separated segment of a localStorage value, by what
\* JSON.parse(atob(segment)) makes of it: "raw" (atob or JSON.parse throws),
\* or "obj" (a JSON object, with or without a numeric exp member).
RawSeg        == [kind |-> "raw", hasExp |-> FALSE, exp |-> 0]
ObjSeg(e)     == [kind |-> "obj", hasExp |-> TRUE,  exp |-> e]
ObjSegNoExp   == [kind |-> "obj", hasExp |-> FALSE, exp |-> 0]

\* A localStorage value is the sequence of its segments (value.split('.')).
OpaqueValue   == <<RawSeg>>
Jwt(e)        == <<RawSeg, ObjSeg(e), RawSeg>>
JwtNoExp      == <<RawSeg, ObjSegNoExp, RawSeg>>

Entry(n, v)   == [name |-> n, value |-> v]
Origin(ls)    == [localStorage |-> ls]

\* What a path of the file system holds.  kind: "absent" (no file),
\* "malformed" (text that is not JSON), "null" (the JSON text null),
\* "noOrigins" (a JSON object with no origins member), "snapshot" (a JSON
\* object with an origins array).
File(k, os, m) == [kind |-> k, origins |-> os, mtimeMs |-> m]
AbsentFile     == File("absent", <<>>, 0)

SeqsUpTo(S, n) == UNION {[1..k -> S] : k \in 0..n}

----------------------------------------------------------------------------
(* tests/auth.setup.ts: isTokenExpired *)

\* (item) => item.name.includes('token') || item.name.includes('auth')
TokenLike(item) == includes(item.name, Str_token) \/ includes(item.name, Str_auth)

\* Array.prototype.find: the index of the first element the predicate holds
\* of, 0 for undefined
FindTokenEntry(ls) ==
    IF \E i \in 1..Len(ls) : TokenLike(ls[i])
    THEN CHOOSE i \in 1..Len(ls) :
             TokenLike(ls[i]) /\ \A j \in 1..(i - 1) : ~TokenLike(ls[j])
    ELSE 0

\* JSON.parse(atob(tokenEntry.value.split('.')[1])): the payload, or thrown
\* when there is no second segment or it does not decode to a JSON object
ParsePayload(value) ==
    IF Len(value) >= 2 /\ value[2].kind = "obj"
    THEN [thrown |-> FALSE, hasExp |-> value[2].hasExp, exp |-> value[2].exp]
    ELSE [thrown |-> TRUE, hasExp |-> FALSE, exp |-> 0]

\* the comparison of line 20 the wrong way round
ExpCheckReversed(payload, now) ==
    payload.hasExp /\ payload.exp # 0 /\ payload.exp * 1000 > now

\* payload.exp && payload.exp * 1000 < Date.now()  (exp 0 is falsy)
ExpCheck(payload, now) ==
    payload.hasExp /\ payload.exp # 0 /\ payload.exp * 1000 < now

\* The body of the loop over data.origins for one origin: TRUE when it
\* executes 'return true', FALSE when it falls through or continues.
OriginReturnsTrue(origin, now) ==
    LET idx == FindTokenEntry(origin.localStorage) IN
    IF idx = 0 THEN FALSE
    ELSE LET payload == ParsePayload(origin.localStorage[idx].value) IN
         IF payload.thrown THEN FALSE
         ELSE ExpCheck(payload, now)

\* for (const origin of data.origins) { ... }, from origin i on
RECURSIVE ScanOrigins(_, _, _)
ScanOrigins(origins, i, now) ==
    IF i > Len(origins) THEN FALSE
    ELSE IF OriginReturnsTrue(origins[i], now) THEN TRUE
    ELSE ScanOrigins(origins, i + 1, now)

\* an isTokenExpired that never expires a file by its age
FileAgeNeverExpired(mtime, now) == FALSE

\* an age check that expires the young files and keeps the old ones
FileAgeExpiredWhileYoung(mtime, now) == (now - mtime) < maxAgeMs

\* return fileAgeMs > maxAgeMs
FileAgeExpired(mtime, now) == (now - mtime) > maxAgeMs

\* isTokenExpired(data), with the two things it reads besides data: the
\* mtime of the auth file (fs.statSync) and the clock (Date.now())
isTokenExpired(origins, mtime, now) ==
    IF Len(origins) = 0 THEN TRUE
    ELSE IF ScanOrigins(origins, 1, now) THEN TRUE
    ELSE FileAgeExpired(mtime, now)

\* What line 38-45 of the setup make of the auth file: "throw" (JSON.parse
\* throws), "skip" (return at line 44), "login" (continue at line 47).
\*   data && data.origins?.length > 0 && !isTokenExpired(data)
SetupDecision(file, now) ==
    IF file.kind = "absent" THEN "login"
    ELSE IF file.kind = "malformed" THEN "throw"
    ELSE IF file.kind \in {"null", "noOrigins"} THEN "login"
    ELSE IF Len(file.origins) > 0 /\ ~isTokenExpired(file.origins, file.mtimeMs, now)
         THEN "skip"
    ELSE "login"

----------------------------------------------------------------------------
(* config.ts, env.ts, playwright.config.ts *)

\* z.enum(['local', 'dev', 'staging'])
AppEnvs == {"local", "dev", "staging"}

\* The two config.ts of the repository: the one that names one auth file,
\* and the one that names one auth file per APP_ENV.
ConfigVariants == {"single", "perEnv"}

\* authFile.hqAdmin
authFile_hqAdmin(variant, env) ==
    IF variant = "single"
    THEN "playwright/.auth/hq-admin-user.json"
    ELSE CASE env = "local"   -> "playwright/.auth/hq-admin-user-local.json"
           [] env = "dev"     -> "playwright/.auth/hq-admin-user-dev.json"
           [] env = "staging" -> "playwright/.auth/hq-admin-user-staging.json"

\* projects[chromium].use.storageState
chromium_storageState == "playwright/.auth/hq-admin-user.json"

Paths == {authFile_hqAdmin(v, e) : v \in ConfigVariants, e \in AppEnvs}
            \cup {chromium_storageState}

\* a runner that retries everywhere as it does in CI
RetriesEverywhere(isCI) == 2

\* retries: process.env.CI ? 2 : 0
Retries(isCI) == IF isCI THEN 2 ELSE 0

\* the scenarios of the chromium project that the runner schedules
Workers == {"w1", "w2"}

----------------------------------------------------------------------------
(* State *)

VARIABLES
    appEnv,         \* env.APP_ENV
    configVariant,  \* which config.ts is in use
    ci,             \* process.env.CI is set
    fs,             \* the file system: what each path holds
    nowMs,          \* Date.now()
    run,            \* number of the current run of the runner
    elapsed,        \* number of clock advances so far
    runStartKind,   \* kind of the auth file when the current run began
    log,            \* one record per completed run
    attempt,        \* retry index of the setup test in this run
    setupPc,        \* position of the setup test
    decision,       \* what lines 38-45 decided in this attempt
    seen,           \* the auth file and the clock as lines 38-45 read them
    ops,            \* browser operations the setup test has invoked
    writes,         \* writes of the auth file in this run
    persisted,      \* the snapshot written in this run
    projectSetup,   \* outcome of the 'setup' project in this run
    workerPc,       \* position of each chromium scenario
    loaded,         \* the storage state each chromium scenario loaded
    retry,          \* testInfo.retry of each chromium scenario
    execs           \* executions each chromium scenario has begun in this run

\* one scenario of the chromium project, executed step by step
VARIABLES
    scenario,       \* the scenario under execution, "none" when none is
    scPc,           \* index of the scenario's current step
    scOutcome,      \* "idle", "running", "passed", "failed" or "skipped"
    reg,            \* the value the last read returned
    done,           \* state-changing actions executed, in order
    thrown,         \* sites that raised an error, in order
    failure,        \* the error the scenario failed with
    variants,       \* headline variants of the campaign's storyboard form
    obs,            \* what the scenario has observed of the page, in order
    pollState,      \* position of the current expect(...).toPass poll
    pollT,          \* milliseconds since the current poll started
    pollN,          \* predicate invocations of the current poll
    pollLast,       \* invocation whose assertion failure the poll holds
    pollRunning,    \* invocations of the predicate begun and not completed
    predPc,         \* the await the running invocation of the predicate stands at
    predVal,        \* the value the predicate hands to its expect
    predLook        \* what the running or last invocation saw of the button

\* the load of env.ts
VARIABLES
    envVariant,     \* which of the two env.ts is loaded
    procEnv,        \* process.env after dotenv
    envPc,          \* "importing", "loaded" or "threw"
    envData,        \* the exported env
    envError,       \* the message of the error the load threw
    begun           \* a test that imports env has begun its first step

vars == <<appEnv, configVariant, ci, fs, nowMs, run, elapsed, runStartKind, log,
          attempt, setupPc, decision, seen, ops, writes, persisted,
          projectSetup, workerPc, loaded, retry, execs,
          scenario, scPc, scOutcome, reg, done, thrown, failure, variants, obs,
          pollState, pollT, pollN, pollLast, pollRunning, predPc, predVal, predLook,
          envVariant, procEnv, envPc, envData, envError, begun>>

envVars   == <<appEnv, configVariant, ci>>
runVars   == <<run, elapsed, runStartKind, log>>
setupVars == <<attempt, setupPc, decision, seen, ops, writes, persisted>>
workVars  == <<workerPc, loaded, retry, execs>>
predVars  == <<pollRunning, predPc, predVal, predLook>>
pollVars  == <<pollState, pollT, pollN, pollLast, predVars>>
scenarioVars == <<scenario, scPc, scOutcome, reg, done, thrown, failure, variants, obs, pollVars>>
loadVars  == <<envVariant, procEnv, envPc, envData, envError, begun>>
runnerVars == <<loadVars, envVars, fs, nowMs, runVars, setupVars, projectSetup, workVars>>

AuthFilePath == authFile_hqAdmin(configVariant, appEnv)

----------------------------------------------------------------------------
(* Initial states *)

\* the localStorage keys and values of initial snapshot files
InitKeys   == {Key_token, Key_authUser, Key_Token}
InitValues == {OpaqueValue, Jwt(ExpPast), Jwt(ExpFuture), Jwt(0), JwtNoExp}
InitEntries == {Entry(n, v) : n \in InitKeys, v \in InitValues}

\* localStorage has one entry per key
DistinctKeys(ls) == \A i, j \in 1..Len(ls) : ls[i].name = ls[j].name => i = j

\* the origins lists of length n that hold at most budget entries in all
RECURSIVE OriginLists(_, _)
OriginLists(n, budget) ==
    IF n = 0 THEN {<<>>}
    ELSE UNION { { <<Origin(ls)>> \o rest : rest \in OriginLists(n - 1, budget - Len(ls)) } :
                 ls \in {l \in SeqsUpTo(InitEntries, budget) : DistinctKeys(l)} }

\* the origins lists of at most maxOrigins origins and maxEntries entries
InitOriginLists(maxOrigins, maxEntries) ==
    UNION {OriginLists(n, maxEntries) : n \in 0..maxOrigins}

\* ages of an initial file: an hour, exactly the threshold, an hour more
InitMtimes == {StartMs - HourMs, StartMs - maxAgeMs, StartMs - maxAgeMs - HourMs}

\* every initial auth file within the bounds
InitFilesAll(maxOrigins, maxEntries) ==
    {AbsentFile}
    \cup {File(k, <<>>, m) : k \in {"malformed", "null", "noOrigins"}, m \in InitMtimes}
    \cup {File("snapshot", os, m) : os \in InitOriginLists(maxOrigins, maxEntries), m \in InitMtimes}

\* a few initial auth files, for the runs of the whole runner
InitFilesFew ==
    {AbsentFile, File("malformed", <<>>, StartMs - HourMs)}
    \cup {File("snapshot", <<Origin(<<Entry(Key_token, v)>>)>>, m) :
              v \in {Jwt(ExpPast), Jwt(ExpFuture)},
              m \in {StartMs - HourMs, StartMs - maxAgeMs - HourMs}}

InitRest ==
    /\ nowMs = StartMs
    /\ run = 1
    /\ elapsed = 0
    /\ runStartKind = fs[AuthFilePath].kind
    /\ log = <<>>
    /\ attempt = 0
    /\ setupPc = "ready"
    /\ decision = "none"
    /\ seen = [file |-> AbsentFile, now |-> 0]
    /\ ops = <<>>
    /\ writes = 0
    /\ persisted = AbsentFile
    /\ projectSetup = "pending"
    /\ workerPc = [w \in Workers |-> "waiting"]
    /\ loaded = [w \in Workers |-> AbsentFile]
    /\ retry = [w \in Workers |-> 0]
    /\ execs = [w \in Workers |-> 0]

\* no scenario is under step-by-step execution
NoScenario ==
    /\ scenario = "none"
    /\ scPc = 1
    /\ scOutcome = "idle"
    /\ reg = FALSE
    /\ done = <<>>
    /\ thrown = <<>>
    /\ failure = [kind |-> "none", site |-> "", last |-> 0]
    /\ variants = 0
    /\ obs = <<>>
    /\ pollState = "idle"
    /\ pollT = 0
    /\ pollN = 0
    /\ pollLast = 0
    /\ pollRunning = 0
    /\ predPc = "idle"
    /\ predVal = FALSE
    /\ predLook = [visible |-> "unread", loading |-> "unread"]

\* env.ts has been loaded with valid credentials and exports appEnv
EnvLoaded ==
    /\ envVariant = "enum"
    /\ procEnv = [APP_ENV |-> [set |-> TRUE, val |-> appEnv],
                  HQ_ADMIN_AUTH_EMAIL |-> [set |-> TRUE, val |-> <<"a", "@", "x", ".", "i", "o">>],
                  HQ_ADMIN_AUTH_PASSWORD |-> [set |-> TRUE, val |-> <<"p", "w">>]]
    /\ envPc = "loaded"
    /\ envData = [APP_ENV |-> appEnv]
    /\ envError = ""
    /\ begun = TRUE

\* the whole runner: any accepted environment, either config.ts, CI or not
Init ==
    /\ appEnv \in AppEnvs
    /\ configVariant \in ConfigVariants
    /\ ci \in BOOLEAN
    /\ \E f \in InitFilesFew :
           fs = [p \in Paths |-> IF p = AuthFilePath THEN f ELSE AbsentFile]
    /\ InitRest
    /\ NoScenario
    /\ EnvLoaded

\* the setup test alone, on every auth file within the bounds
InitSetup ==
    /\ appEnv = "local"
    /\ configVariant = "single"
    /\ ci = FALSE
    /\ \E f \in InitFilesAll(MaxOrigins, MaxEntries) :
           fs = [p \in Paths |-> IF p = AuthFilePath THEN f ELSE AbsentFile]
    /\ InitRest
    /\ NoScenario
    /\ EnvLoaded

----------------------------------------------------------------------------
(* tests/auth.setup.ts: setup('authenticate HQ Admin') *)

\* the awaited steps of lines 47-58, in order
LoginSteps == <<"goto", "fillEmail", "fillPassword", "clickLogin",
                "expectVisible", "setFlag", "storageState">>

StepIndex(pc) == CHOOSE i \in 1..Len(LoginSteps) : LoginSteps[i] = pc

\* the steps that act on the page (all but the storageState call)
BrowserSteps == {LoginSteps[i] : i \in 1..(Len(LoginSteps) - 1)}

\* localStorage.setItem('hq-admin.campaignAi', 'true')
FlagEntry == Entry(Key_campaignAi, OpaqueValue)

\* what the application itself may have put in localStorage by the time the
\* 'Stores / Branches' text is visible: nothing, an opaque session marker,
\* or a JWT that expires an hour after the login
AppStorage(now) ==
    { <<>>,
      <<Entry(Key_authUser, OpaqueValue)>>,
      <<Entry(Key_token, Jwt((now \div 1000) + 3600))>> }

\* a snapshot taken of a context that holds nothing of the login
StorageStateBlank(appEntries, now) == File("snapshot", <<>>, now)

\* a snapshot that misses what line 55 put into localStorage
StorageStateWithoutFlag(appEntries, now) ==
    File("snapshot", <<Origin(appEntries)>>, now)

\* page.context().storageState({ path }): the snapshot written, given what
\* the application stored; the flag set at line 55 is in it
StorageStateSnapshot(appEntries, now) ==
    File("snapshot", <<Origin(appEntries \o <<FlagEntry>>)>>, now)

\* a test that lacks the return at line 44
AfterDecisionNoReturn(d) == IF d = "throw" THEN "failed" ELSE "goto"

\* where the test stands after lines 38-45: JSON.parse threw, the return at
\* line 44 was taken, or line 47 is next
AfterDecision(d) ==
    CASE d = "skip"  -> "passed"
      [] d = "throw" -> "failed"
      [] d = "login" -> "goto"

\* lines 38-45: read the auth file and decide
SetupBegin ==
    /\ projectSetup = "pending"
    /\ setupPc = "ready"
    /\ LET file == fs[AuthFilePath]
           d    == SetupDecision(file, nowMs)
       IN /\ decision' = d
          /\ seen' = [file |-> file, now |-> nowMs]
          /\ setupPc' = AfterDecision(d)
    /\ UNCHANGED <<attempt, ops, writes, persisted>>
    /\ UNCHANGED <<loadVars, scenarioVars, envVars, fs, nowMs, runVars, projectSetup, workVars>>

\* one of lines 47-56 completes
LoginStepOk ==
    /\ setupPc \in BrowserSteps
    /\ ops' = Append(ops, setupPc)
    /\ setupPc' = LoginSteps[StepIndex(setupPc) + 1]
    /\ UNCHANGED <<attempt, decision, seen, writes, persisted>>
    /\ UNCHANGED <<loadVars, scenarioVars, envVars, fs, nowMs, runVars, projectSetup, workVars>>

\* one of lines 47-58 throws (navigation fails, a locator times out, the
\* login is rejected so that 'Stores / Branches' never shows, the state
\* cannot be collected): the test ends failed
LoginStepThrows ==
    /\ setupPc \in BrowserSteps \cup {"storageState"}
    /\ ops' = IF setupPc \in BrowserSteps THEN Append(ops, setupPc) ELSE ops
    /\ setupPc' = "failed"
    /\ UNCHANGED <<attempt, decision, seen, writes, persisted>>
    /\ UNCHANGED <<loadVars, scenarioVars, envVars, fs, nowMs, runVars, projectSetup, workVars>>

\* line 58: the state has been collected, the write of the file begins
StorageStateBegin ==
    /\ setupPc = "storageState"
    /\ setupPc' = "writing"
    /\ UNCHANGED <<attempt, decision, seen, ops, writes, persisted>>
    /\ UNCHANGED <<loadVars, scenarioVars, envVars, fs, nowMs, runVars, projectSetup, workVars>>

\* line 58: the file is written, the test ends passed
StorageStateEnd ==
    /\ setupPc = "writing"
    /\ \E appEntries \in AppStorage(nowMs) :
           LET snap == StorageStateSnapshot(appEntries, nowMs) IN
           /\ fs' = [fs EXCEPT ![AuthFilePath] = snap]
           /\ persisted' = snap
    /\ writes' = writes + 1
    /\ setupPc' = "passed"
    /\ UNCHANGED <<attempt, decision, seen, ops>>
    /\ UNCHANGED <<loadVars, scenarioVars, envVars, nowMs, runVars, projectSetup, workVars>>

----------------------------------------------------------------------------
(* playwright.config.ts: retries and the project graph *)

\* a failed setup test is run again, with a fresh page, while retries remain
RetrySetup ==
    /\ projectSetup = "pending"
    /\ setupPc = "failed"
    /\ attempt < Retries(ci)
    /\ attempt' = attempt + 1
    /\ setupPc' = "ready"
    /\ decision' = "none"
    /\ ops' = <<>>
    /\ UNCHANGED <<seen, writes, persisted>>
    /\ UNCHANGED <<loadVars, scenarioVars, envVars, fs, nowMs, runVars, projectSetup, workVars>>

\* the setup project ends passed
SetupProjectPassed ==
    /\ projectSetup = "pending"
    /\ setupPc = "passed"
    /\ projectSetup' = "passed"
    /\ UNCHANGED <<loadVars, scenarioVars, envVars, fs, nowMs, runVars, setupVars, workVars>>

\* the setup project ends failed: the test failed and no retry remains
SetupProjectFailed ==
    /\ projectSetup = "pending"
    /\ setupPc = "failed"
    /\ attempt >= Retries(ci)
    /\ projectSetup' = "failed"
    /\ UNCHANGED <<loadVars, scenarioVars, envVars, fs, nowMs, runVars, setupVars, workVars>>

\* a chromium project that declares no dependencies
DependenciesNone == TRUE

\* a chromium project that waits for setup to end, not for it to pass
DependenciesEnded == projectSetup # "pending"

\* dependencies: ['setup'] -- the chromium project runs once setup passed
DependenciesMet == projectSetup = "passed"

\* ... and its tests are skipped once setup failed
DependenciesFailed == projectSetup = "failed"

\* an execution of the scenario of w ends with outcome r.  retries: while
\* testInfo.retry is below the configured retries, a failed execution is
\* followed by another from the start, with a fresh context
EndExecution(w, r) ==
    IF r = "failed" /\ retry[w] < Retries(ci)
    THEN /\ workerPc' = [workerPc EXCEPT ![w] = "reading"]
         /\ retry' = [retry EXCEPT ![w] = @ + 1]
         /\ execs' = [execs EXCEPT ![w] = @ + 1]
    ELSE /\ workerPc' = [workerPc EXCEPT ![w] = r]
         /\ UNCHANGED <<retry, execs>>

\* a chromium scenario starts: its context opens the storageState file
ScenarioStart(w) ==
    /\ workerPc[w] = "waiting"
    /\ DependenciesMet
    /\ workerPc' = [workerPc EXCEPT ![w] = "reading"]
    /\ execs' = [execs EXCEPT ![w] = @ + 1]
    /\ UNCHANGED <<loaded, retry>>
    /\ UNCHANGED <<loadVars, scenarioVars, envVars, fs, nowMs, runVars, setupVars, projectSetup>>

\* the context has read the storageState file; a missing or unparseable
\* file fails the scenario
ScenarioLoad(w) ==
    /\ workerPc[w] = "reading"
    /\ LET file == fs[chromium_storageState] IN
       /\ loaded' = [loaded EXCEPT ![w] = file]
       /\ IF file.kind \in {"absent", "malformed", "null"}
          THEN EndExecution(w, "failed")
          ELSE /\ workerPc' = [workerPc EXCEPT ![w] = "running"]
               /\ UNCHANGED <<retry, execs>>
    /\ UNCHANGED <<loadVars, scenarioVars, envVars, fs, nowMs, runVars, setupVars, projectSetup>>

\* a running scenario ends, passed or failed
ScenarioEnd(w) ==
    /\ workerPc[w] = "running"
    /\ \E r \in {"passed", "failed"} : EndExecution(w, r)
    /\ UNCHANGED loaded
    /\ UNCHANGED <<loadVars, scenarioVars, envVars, fs, nowMs, runVars, setupVars, projectSetup>>


\* a scenario whose project's dependency failed is not run
ScenarioSkip(w) ==
    /\ workerPc[w] = "waiting"
    /\ DependenciesFailed
    /\ workerPc' = [workerPc EXCEPT ![w] = "skipped"]
    /\ UNCHANGED <<loaded, retry, execs>>
    /\ UNCHANGED <<loadVars, scenarioVars, envVars, fs, nowMs, runVars, setupVars, projectSetup>>

Terminal == {"passed", "failed", "skipped"}

\* time passes before a run begins
ElapseSteps == {HourMs, maxAgeMs}

Elapse ==
    /\ setupPc = "ready"
    /\ attempt = 0
    /\ elapsed < MaxElapse
    /\ \E d \in ElapseSteps : nowMs' = nowMs + d
    /\ elapsed' = elapsed + 1
    /\ UNCHANGED <<run, runStartKind, log>>
    /\ UNCHANGED <<loadVars, scenarioVars, envVars, fs, setupVars, projectSetup, workVars>>

\* the runner is invoked again
NextRun ==
    /\ run < MaxRuns
    /\ projectSetup # "pending"
    /\ \A w \in Workers : workerPc[w] \in Terminal
    /\ log' = Append(log, [startKind |-> runStartKind,
                           setup     |-> projectSetup,
                           login     |-> ops # <<>>,
                           writes    |-> writes,
                           persisted |-> persisted])
    /\ run' = run + 1
    /\ runStartKind' = fs[AuthFilePath].kind
    /\ attempt' = 0
    /\ setupPc' = "ready"
    /\ decision' = "none"
    /\ seen' = [file |-> AbsentFile, now |-> 0]
    /\ ops' = <<>>
    /\ writes' = 0
    /\ persisted' = AbsentFile
    /\ projectSetup' = "pending"
    /\ workerPc' = [w \in Workers |-> "waiting"]
    /\ loaded' = [w \in Workers |-> AbsentFile]
    /\ retry' = [w \in Workers |-> 0]
    /\ execs' = [w \in Workers |-> 0]
    /\ UNCHANGED <<loadVars, scenarioVars, envVars, fs, nowMs, elapsed>>

----------------------------------------------------------------------------
(* Specifications *)

SetupTest ==
    \/ SetupBegin
    \/ LoginStepOk
    \/ LoginStepThrows
    \/ StorageStateBegin
    \/ StorageStateEnd

Next ==
    \/ SetupTest
    \/ RetrySetup
    \/ SetupProjectPassed
    \/ SetupProjectFailed
    \/ \E w \in Workers : ScenarioStart(w)
    \/ \E w \in Workers : ScenarioLoad(w)
    \/ \E w \in Workers : ScenarioEnd(w)
    \/ \E w \in Workers : ScenarioSkip(w)
    \/ Elapse
    \/ NextRun

\* the runner, run after run
Spec == Init /\ [][Next]_vars

\* one execution of the setup test on every auth file within the bounds
SpecSetup == InitSetup /\ [][SetupTest]_vars

----------------------------------------------------------------------------
(* Vocabulary of the properties, stated on the snapshot itself and not by *)
(* way of the operators that model the code                               *)

\* the key contains 'token' or 'auth'
IsTokenKey(name) == includes(name, Str_token) \/ includes(name, Str_auth)

\* the value is a three-part token whose middle part is a JSON object with exp
IsJwtWithExp(value) ==
    Len(value) = 3 /\ value[2].kind = "obj" /\ value[2].hasExp

\* ... and that exp is earlier than the time now (in ms)
IsExpiredJwt(value, now) == IsJwtWithExp(value) /\ value[2].exp * 1000 < now

\* ... and that exp is not earlier than the time now
IsLiveJwt(value, now) == IsJwtWithExp(value) /\ value[2].exp * 1000 >= now

\* all (origin index, entry index) pairs of an origins list
EntryIdx(origins) ==
    {<<i, j>> \in (1..Len(origins)) \X (1..MaxEntries + 1) :
        j <= Len(origins[i].localStorage)}

EntryAt(origins, ij) == origins[ij[1]].localStorage[ij[2]]

\* the entry is the first of its origin whose key is token-like
IsFirstTokenEntry(origins, ij) ==
    /\ IsTokenKey(EntryAt(origins, ij).name)
    /\ \A k \in 1..(ij[2] - 1) : ~IsTokenKey(origins[ij[1]].localStorage[k].name)

\* the setup test of this attempt has read the auth file and decided
Decided == decision # "none"

\* the age of the auth file as the setup test saw it
SeenAge == seen.now - seen.file.mtimeMs

----------------------------------------------------------------------------
(* C1 -- a snapshot file that exists but is malformed does not fail the    *)
(* setup: it is treated as absent and the interactive login is performed.  *)
(* The code parses the file with a bare JSON.parse, which throws.          *)
C1_MalformedDegradesToLogin ==
    (Decided /\ seen.file.kind = "malformed") => decision = "login"

(* C2 -- a snapshot with zero origins, or whose origins hold no storage    *)
(* entries at all, is not usable and the login is performed, however       *)
(* recent the file.  The code never looks at whether an origin has entries.*)
C2_EmptySnapshotNotUsable ==
    (/\ Decided
     /\ seen.file.kind = "snapshot"
     /\ \A i \in 1..Len(seen.file.origins) :
            Len(seen.file.origins[i].localStorage) = 0)
    => decision = "login"

C4_LiveTokenUsableAtAnyAge ==
    (/\ Decided
     /\ seen.file.kind = "snapshot"
     /\ \E ij \in EntryIdx(seen.file.origins) :
            IsTokenKey(EntryAt(seen.file.origins, ij).name)
     /\ \A ij \in EntryIdx(seen.file.origins) :
            IsTokenKey(EntryAt(seen.file.origins, ij).name)
            => IsLiveJwt(EntryAt(seen.file.origins, ij).value, seen.now))
    => decision = "skip"

(* C5 -- for a snapshot with at least one origin in which no token-like    *)
(* entry is a JWT carrying exp, the age of the file alone decides: usable  *)
(* under 23 hours, not usable over 23 hours.                               *)
C5_NoExpThenAgeDecides ==
    (/\ Decided
     /\ seen.file.kind = "snapshot"
     /\ Len(seen.file.origins) >= 1
     /\ \A ij \in EntryIdx(seen.file.origins) :
            IsTokenKey(EntryAt(seen.file.origins, ij).name)
            => ~IsJwtWithExp(EntryAt(seen.file.origins, ij).value))
    => /\ SeenAge < maxAgeMs => decision = "skip"
       /\ SeenAge > maxAgeMs => decision = "login"

\* C5's case: a token-like entry that is no JWT, in a file older than 23
\* hours, and the login was chosen
C5_Witness ==
    /\ decision = "login"
    /\ seen.file.kind = "snapshot"
    /\ SeenAge > maxAgeMs
    /\ Len(seen.file.origins) = 1
    /\ Len(seen.file.origins[1].localStorage) = 1
    /\ IsTokenKey(seen.file.origins[1].localStorage[1].name)
    /\ ~IsJwtWithExp(seen.file.origins[1].localStorage[1].value)

(* C6 -- when the snapshot is judged usable the setup test returns at      *)
(* once: it has invoked no browser operation, it has written nothing, the  *)
(* auth file is as it was read, and the test has passed.                   *)
C6_UsableShortCircuits ==
    decision = "skip"
    => /\ ops = <<>>
       /\ writes = 0
       /\ fs[AuthFilePath] = seen.file
       /\ setupPc = "passed"

\* C6's case: a usable snapshot was read and the test has ended
C6_Witness ==
    /\ decision = "skip"
    /\ setupPc = "passed"
    /\ seen.file.kind = "snapshot"
    /\ fs[AuthFilePath].kind = "snapshot"

----------------------------------------------------------------------------
(* Properties of the runner *)

\* no token-like entry of the file is a JWT whose exp is earlier than now
NoExpiredToken(file, now) ==
    \A ij \in EntryIdx(file.origins) :
        IsTokenKey(EntryAt(file.origins, ij).name)
        => ~IsExpiredJwt(EntryAt(file.origins, ij).value, now)

\* the run before the current one
LastRun == log[Len(log)]

(* C7 -- a run that starts with no snapshot file executes the login flow   *)
(* and, when its setup passes, has written the file once; the setup of the *)
(* run that follows, reading that file unchanged with no token expired and *)
(* less than 23 hours later, judges it usable and skips the login.         *)
C7_LoginThenReuse ==
    /\ (runStartKind = "absent" /\ Decided /\ writes = 0) => decision = "login"
    /\ (runStartKind = "absent" /\ projectSetup = "passed")
       => /\ writes = 1
          /\ ops = <<"goto", "fillEmail", "fillPassword", "clickLogin",
                     "expectVisible", "setFlag">>
          /\ persisted.kind = "snapshot"
          /\ fs[AuthFilePath] = persisted
    /\ (/\ run > 1
        /\ LastRun.startKind = "absent"
        /\ LastRun.setup = "passed"
        /\ Decided
        /\ seen.file = LastRun.persisted
        /\ NoExpiredToken(seen.file, seen.now)
        /\ SeenAge < maxAgeMs)
       => /\ decision = "skip"
          /\ ops = <<>>
          /\ writes = 0

\* C7's case: the first run began with no file and logged in, an hour
\* passed, and the second run's setup has skipped the login
C7_Witness ==
    /\ run = 2
    /\ LastRun.startKind = "absent"
    /\ LastRun.login
    /\ LastRun.writes = 1
    /\ seen.file = LastRun.persisted
    /\ SeenAge = HourMs
    /\ decision = "skip"
    /\ projectSetup = "passed"

(* C8 -- the snapshot file is written at most once per run and only while  *)
(* the setup project is running; no chromium scenario has started before   *)
(* the setup project passed, so a write of the file never overlaps a       *)
(* scenario's read of it.                                                  *)
C8_WriteOnceBeforeWorkers ==
    /\ writes <= 1
    /\ setupPc = "writing"
       => /\ projectSetup = "pending"
          /\ \A w \in Workers : workerPc[w] = "waiting"
    /\ \A w \in Workers :
          workerPc[w] \in {"reading", "running", "passed"}
          => projectSetup = "passed" /\ setupPc = "passed"
    /\ ~(\E w \in Workers : workerPc[w] = "reading" /\ setupPc = "writing")

\* C8's case: the file was written in this run and a scenario is reading
\* it while another still waits
C8_Witness ==
    /\ writes = 1
    /\ setupPc = "passed"
    /\ workerPc["w1"] = "reading"
    /\ workerPc["w2"] = "waiting"

(* C9 -- when the setup project fails, no scenario of the chromium project *)
(* is run: each stays not started or is skipped, none runs, passes or      *)
(* fails.                                                                  *)
C9_SetupFailureBlocksScenarios ==
    (projectSetup = "failed" \/ (projectSetup = "pending" /\ setupPc = "failed"))
    => \A w \in Workers : workerPc[w] \in {"waiting", "skipped"}

\* C9's case: the login was rejected ('Stores / Branches' never visible),
\* the setup project failed and every scenario was skipped
C9_Witness ==
    /\ projectSetup = "failed"
    /\ ops = <<"goto", "fillEmail", "fillPassword", "clickLogin", "expectVisible">>
    /\ \A w \in Workers : workerPc[w] = "skipped"

(* C10 -- for every accepted environment name, the file the setup persists *)
(* the session to is the file every chromium scenario loads its storage    *)
(* state from: a scenario that has opened its context in a run whose setup *)
(* wrote the snapshot has loaded that snapshot.  With the config.ts that   *)
(* names one file per APP_ENV the two paths differ.                        *)
C10_ScenariosLoadWhatSetupSaved ==
    \A w \in Workers :
        (writes = 1 /\ workerPc[w] \in {"running", "passed", "failed"})
        => loaded[w] = persisted


----------------------------------------------------------------------------
(* Scenarios of the chromium project, as the sequence of their awaited     *)
(* steps.  A step is a state-changing action of a page object ("act"), a   *)
(* wait of a page object or a web-first assertion ("wait"), a read of the  *)
(* page ("read"), an expect(...).toBe on the value last read ("expect"),   *)
(* an expect(...).toPass poll around a read and its expect ("poll"), or a  *)
(* testInfo.skip on the value last read ("skipUnless").  catch tells what  *)
(* the code around the step does with an error the step raises: "none"     *)
(* lets it propagate, "false" turns it into the value false (.catch(() =>  *)
(* false), or a catch block that returns false), "skip" turns it into      *)
(* testInfo.skip.                                                          *)

Act(n) ==
    [op |-> "act", name |-> n, want |-> TRUE, timeout |-> 0, catch |-> "none"]

Wait(n, c) ==
    [op |-> "wait", name |-> n, want |-> TRUE, timeout |-> 0, catch |-> c]

Read(n, c) ==
    [op |-> "read", name |-> n, want |-> TRUE, timeout |-> 0, catch |-> c]

Expect(w) ==
    [op |-> "expect", name |-> "expect", want |-> w, timeout |-> 0, catch |-> "none"]

SkipUnless(w) ==
    [op |-> "skipUnless", name |-> "skip", want |-> w, timeout |-> 0, catch |-> "none"]

\* if (value is not want) skip the next jump steps: the block of an if
If(w, jump) ==
    [op |-> "if", name |-> "if", want |-> w, timeout |-> 0, catch |-> "none", jump |-> jump]

\* a poll whose predicate reads n and expects w; act is the state-changing
\* action its predicate performs, "" when it only reads
Poll(n, w, t, c, act) ==
    [op |-> "poll", name |-> n, want |-> w, timeout |-> t, catch |-> c, act |-> act]

\* the lifecycle scenario with its clicks moved into the polled predicates
LifecycleClicksInPolls ==
    <<Act("fillCampaignName"),
      Poll("isUpdateCampaignBriefEnabled", TRUE, 5000, "none", "clickUpdateCampaignBrief"),
      Wait("waitForDetailsPage", "none"),
      Poll("isGenerateStoryboardEnabled", TRUE, 10000, "none", "clickGenerateStoryboard"),
      Poll("isSaveButtonDisabled", TRUE, 10000, "none", "clickSave"),
      Poll("isGenerateLoading", TRUE, 5000, "none", "clickGenerate"),
      Act("confirmDelete")>>

\* the lifecycle scenario with every poll wrapped in a catch that returns false
LifecyclePollsCaught ==
    <<Act("fillCampaignName"),
      Poll("isUpdateCampaignBriefEnabled", TRUE, 5000, "false", ""),
      Act("clickUpdateCampaignBrief"),
      Poll("isGenerateStoryboardEnabled", TRUE, 10000, "false", ""),
      Act("clickGenerateStoryboard"),
      Act("confirmDelete")>>

\* the lifecycle scenario asserting the enabled tab straight after the click
LifecycleEnabledFirst ==
    <<Act("clickGenerateStoryboard"),
      Wait("waitForStoryboardTabEnabled", "none"),
      Read("isStoryboardTabEnabled", "none"), Expect(TRUE),
      Act("clickStoryboardTab")>>

\* 'should create campaign, generate storyboard & copy, and delete campaign'
Lifecycle ==
    <<Wait("navigateToPage", "none"),
      Read("isLaunchNewCampaignVisible", "false"), Expect(TRUE),
      Act("clickLaunchNewCampaign"),
      Wait("waitForLaunchCampaignModal", "none"),
      Act("clickManualCreationLink"),
      Wait("waitForCreatePage", "none"),
      Read("isGenerateStoryboardEnabled", "none"), Expect(FALSE),
      Act("fillCampaignName"),
      Poll("isUpdateCampaignBriefEnabled", TRUE, 5000, "none", ""),
      Act("clickUpdateCampaignBrief"),
      Wait("waitForDetailsPage", "none"),
      Wait("waitForLoadState", "none"),
      Poll("isGenerateStoryboardEnabled", TRUE, 10000, "none", ""),
      Act("clickGenerateStoryboard"),
      Poll("isGenerateStoryboardLoading", TRUE, 5000, "none", ""),
      Wait("waitForStoryboardTab", "none"),
      Read("isStoryboardTabVisible", "false"), Expect(TRUE),
      Read("isStoryboardTabSpinning", "none"), Expect(TRUE),
      Read("isStoryboardTabDisabled", "none"), Expect(TRUE),
      Wait("waitForStoryboardTabEnabled", "none"),
      Read("isStoryboardTabSpinning", "none"), Expect(FALSE),
      Read("isStoryboardTabEnabled", "none"), Expect(TRUE),
      Act("clickStoryboardTab"),
      Wait("waitForLoadState", "none"),
      Wait("verifySectionsVisible", "none"),
      Wait("verifyButtonsVisible", "none"),
      Read("isSaveButtonDisabled", "none"), Expect(TRUE),
      Act("fillDefaultHeadline"),
      Read("isSaveButtonEnabled", "none"), Expect(TRUE),
      Act("clickSave"),
      Wait("saveButtonToBeDisabled", "none"),
      Poll("isSaveButtonDisabled", TRUE, 10000, "none", ""),
      Read("isPortraitSelected", "none"), Expect(TRUE),
      Act("selectLandscapePreview"),
      Read("isLandscapeSelected", "none"), Expect(TRUE),
      Read("isGenerateButtonVisible", "false"), Expect(TRUE),
      Act("clickGenerate"),
      Poll("isGenerateLoading", TRUE, 5000, "none", ""),
      Wait("navigateBackToTable", "none"),
      Act("searchCampaign"),
      Act("selectCampaignRow"),
      Act("clickDeleteSelectedCampaigns"),
      Wait("waitForDeleteConfirmModal", "none"),
      Act("confirmDelete"),
      Wait("waitForDeleteSuccess", "none"),
      Read("verifyCampaignDeleted", "none"), Expect(TRUE)>>


\* a beforeEach that awaits navigateToPage and does nothing with its result
BeforeEachIgnoresResult ==
    <<Wait("navigateToCampaignPage", "none"),
      Read("urlIncludesCreate", "none"), If(FALSE, 5),
      Read("storyboardTabIsVisible", "false"), If(TRUE, 3),
      Wait("storyboardTabToBeEnabled", "false"),
      Act("clickStoryboardTab"),
      Wait("waitForPageLoad", "none")>>

\* test.beforeEach of the Storyboard and Copy suite, with navigateToPage
\* inlined: each return false of navigateToPage ends in testInfo.skip
BeforeEach ==
    <<Wait("navigateToCampaignPage", "none"),
      Read("urlIncludesCreate", "none"), SkipUnless(FALSE),
      Read("storyboardTabIsVisible", "false"), SkipUnless(TRUE),
      Wait("storyboardTabToBeEnabled", "skip"),
      Act("clickStoryboardTab"),
      Wait("waitForPageLoad", "none")>>

\* the poll of waitForGenerateAgainClickable without the try/catch around it
WaitForGenerateAgainClickableUncaught(timeout) ==
    Poll("isGenerateAgainButtonClickable", TRUE, timeout, "none", "")

\* waitForGenerateAgainClickable(timeout): the poll inside try/catch
WaitForGenerateAgainClickable(timeout) ==
    Poll("isGenerateAgainButtonClickable", TRUE, timeout, "false", "")

\* 'should show loading state on Generate Again button when preview is
\* generating'
LoadingState ==
    <<WaitForGenerateAgainClickable(30000), SkipUnless(TRUE),
      Act("clickGenerateAgain"),
      Wait("waitForRegenerateModal", "none"),
      Act("clickRegenerateModalGenerate"),
      Wait("regenerateModalNotToBeVisible", "skip"),
      Read("isGenerateAgainLoading", "none"), SkipUnless(TRUE),
      Expect(TRUE)>>

\* 'switching between portrait and landscape should update the campaign
\* preview'.  getPreviewContainerDimensions returns { width: 0, height: 0 }
\* when its wait or its bounding box read raises; the value read is whether
\* the dimensions are as the scenario wants them (non-zero, wider, equal)
PreviewStyle ==
    <<Read("isConfigureStylesEnabled", "none"), SkipUnless(TRUE),
      Read("isPortraitSelected", "none"), Expect(TRUE),
      Read("getPreviewContainerDimensions", "false"), SkipUnless(TRUE),
      Act("selectLandscapePreview"),
      Wait("waitForPreviewUpdate", "none"),
      Read("isLandscapeSelected", "none"), Expect(TRUE),
      Read("getPreviewContainerDimensions", "false"), Expect(TRUE),
      Act("selectPortraitPreview"),
      Wait("waitForPreviewUpdate", "none"),
      Read("isPortraitSelected", "none"), Expect(TRUE),
      Read("getPreviewContainerDimensions", "false"), Expect(TRUE)>>

\* the loop of the variant-limit scenario without its isDisabled check
AddVariantsUnguarded ==
    <<Act("addHeadlineVariant")>>

\* for (let i = 0; i < 5; i++) { ... }: one turn of the loop
AddVariantIfEnabled ==
    <<Read("isAddHeadlineVariantDisabled", "none"), If(FALSE, 1),
      Act("addHeadlineVariant")>>

\* 'should disable Add Variant button when 5 headline variants exist'
VariantLimitScenario ==
    <<Read("addHeadlineVariantBtnIsVisible", "false"),
      If(TRUE, 5 * Len(AddVariantIfEnabled) + 2)>>
    \o AddVariantIfEnabled \o AddVariantIfEnabled \o AddVariantIfEnabled
    \o AddVariantIfEnabled \o AddVariantIfEnabled
    \o <<Read("isAddHeadlineVariantDisabled", "none"), Expect(TRUE)>>

\* if (isClickable) { ... }: the regeneration of ensureMultipleVariantsForCarousel
RegenerateBlock ==
    <<Act("clickGenerateAgain"),
      Wait("waitForRegenerateModal", "none"),
      Act("clickRegenerateModalGenerate"),
      Wait("waitForTimeout", "none"),
      WaitForGenerateAgainClickable(60000)>>

\* if (variantCount < 1) { ... } of ensureMultipleVariantsForCarousel; its
\* return false ends in the caller's testInfo.skip
AddVariantBlock ==
    <<Read("isAddHeadlineVariantDisabled", "none"), SkipUnless(FALSE),
      Act("addHeadlineVariant"),
      Act("fillHeadlineVariant"),
      Act("clickSave"),
      Wait("waitForTimeout", "none"),
      WaitForGenerateAgainClickable(30000), If(TRUE, Len(RegenerateBlock))>>
    \o RegenerateBlock

\* ensureMultipleVariantsForCarousel(page, storyboardPage)
EnsureMultipleVariantsForCarousel ==
    <<Read("headlineVariantsCountBelow1", "none"), If(TRUE, Len(AddVariantBlock))>>
    \o AddVariantBlock

\* if (slideCount < 2) { ... } of the carousel navigation scenarios
EnsureBlock ==
    EnsureMultipleVariantsForCarousel
    \o <<Read("slideCountBelow2", "none"), SkipUnless(FALSE)>>

\* what the carousel navigation scenarios do before they click
CarouselPrelude ==
    <<WaitForGenerateAgainClickable(30000), SkipUnless(TRUE),
      Read("isCarouselVisible", "false"), SkipUnless(TRUE),
      Read("slideCountBelow2", "none"), If(TRUE, Len(EnsureBlock))>>
    \o EnsureBlock

\* 'should navigate to next slide when clicking next button'
CarouselNext ==
    CarouselPrelude
    \o <<Read("getActiveCarouselSlideIndex", "none"),
          Act("clickCarouselNext"),
          Wait("waitForTimeout", "none"),
          Read("newIndexIsNextIndex", "none"), Expect(TRUE)>>

\* 'should navigate to previous slide when clicking prev button'
CarouselPrev ==
    CarouselPrelude
    \o <<Act("clickCarouselNext"),
          Wait("waitForTimeout", "none"),
          Read("getActiveCarouselSlideIndex", "none"),
          Act("clickCarouselPrev"),
          Wait("waitForTimeout", "none"),
          Read("newIndexIsPrevIndex", "none"), Expect(TRUE)>>

\* 'should have multiple slides when text variants exist'
MultipleSlides ==
    <<WaitForGenerateAgainClickable(30000), SkipUnless(TRUE),
      Read("isCarouselVisible", "false"), SkipUnless(TRUE)>>
    \o EnsureMultipleVariantsForCarousel
    \o <<Read("slideCountAtLeast2", "none"), Expect(TRUE)>>

\* 'should delete a headline variant'
DeleteVariant ==
    <<Read("addHeadlineVariantBtnIsVisible", "false"), If(TRUE, 6),
      Act("addHeadlineVariant"),
      Read("countAfterAddAbove0", "none"), Expect(TRUE),
      Act("deleteHeadlineVariant"),
      Read("countAfterDeleteIsOneLess", "none"), Expect(TRUE)>>

\* the scenarios of the Storyboard and Copy suite that read the form's variants
FormScenarios ==
    {"variantLimit", "carouselNext", "carouselPrev", "multipleSlides", "deleteVariant"}

Scenarios == {"lifecycle", "loadingState", "previewStyle"} \cup FormScenarios

\* the steps of a scenario, its beforeEach hook included
Steps(sc) ==
    CASE sc = "lifecycle"    -> Lifecycle
      [] sc = "loadingState" -> BeforeEach \o LoadingState
      [] sc = "previewStyle" -> BeforeEach \o PreviewStyle
      [] sc = "variantLimit" -> BeforeEach \o VariantLimitScenario
      [] sc = "carouselNext" -> BeforeEach \o CarouselNext
      [] sc = "carouselPrev" -> BeforeEach \o CarouselPrev
      [] sc = "multipleSlides" -> BeforeEach \o MultipleSlides
      [] sc = "deleteVariant" -> BeforeEach \o DeleteVariant
      [] OTHER               -> <<>>

Script == Steps(scenario)

\* the step the scenario stands at
Cur == Script[scPc]

AtStep(op) ==
    /\ scOutcome = "running"
    /\ scPc <= Len(Script)
    /\ Cur.op = op

NoFailure == [kind |-> "none", site |-> "", last |-> 0]

Error(kind, site, last) == [kind |-> kind, site |-> site, last |-> last]

\* a handler that swallows every error and carries on
OnErrorCarryOn(c) ==
    IF c = "skip" THEN "skip" ELSE "false"

\* what becomes of an error raised under handling c: without a handler it
\* fails the scenario
OnError(c) ==
    CASE c = "none"  -> "fail"
      [] c = "false" -> "false"
      [] c = "skip"  -> "skip"

\* One observation: a value a read returned to the scenario ("read"), a
\* wait that completed ("wait"), a poll that passed ("poll"), or an
\* expect(...).toBe(value) that passed on the value of the read named
\* ("expect").
Obs(kind, n, v) == [kind |-> kind, name |-> n, value |-> v]

\* the read whose value the scenario holds
LastRead ==
    LET R == {i \in 1..Len(obs) : obs[i].kind = "read"} IN
    IF R = {} THEN "" ELSE obs[CHOOSE i \in R : \A j \in R : j <= i].name

\* the current step raises error e
Raise(e) ==
    /\ thrown' = Append(thrown, e)
    /\ CASE OnError(Cur.catch) = "fail" ->
              /\ scOutcome' = "failed"
              /\ failure' = e
              /\ UNCHANGED <<scPc, reg, obs>>
         [] OnError(Cur.catch) = "false" ->
              /\ reg' = FALSE
              /\ obs' = Append(obs, Obs("read", Cur.name, FALSE))
              /\ scPc' = scPc + 1
              /\ UNCHANGED <<scOutcome, failure>>
         [] OnError(Cur.catch) = "skip" ->
              /\ scOutcome' = "skipped"
              /\ UNCHANGED <<scPc, reg, failure, obs>>

\* the current step completes
Advance ==
    /\ scPc' = scPc + 1
    /\ UNCHANGED <<scOutcome, thrown, failure>>

\* the application disables Add Headline Variant at five variants
VariantLimit == 5

\* what a read can return: the add button's state follows the number of
\* variants, any other read returns what the page shows
ReadValues(n) ==
    CASE n = "isAddHeadlineVariantDisabled" -> {variants >= VariantLimit}
      [] n = "headlineVariantsCountBelow1"  -> {variants < 1}
      [] n = "countAfterAddAbove0"          -> {variants > 0}
      [] OTHER                              -> BOOLEAN

\* what an action does to the form: a click on the enabled add button adds
\* a variant, a click on the delete button of a variant removes one
AfterAct(n) ==
    CASE n = "addHeadlineVariant" /\ variants < VariantLimit -> variants + 1
      [] n = "deleteHeadlineVariant" /\ variants > 0         -> variants - 1
      [] OTHER                                               -> variants

\* page object methods whose body is a throw statement
ThrowingHelpers == {"clickCarouselPrev", "clickCarouselNext"}

\* a click, fill or selection of a page object: it completes, or the page
\* makes it raise; a method that only throws always raises
StepAct ==
    /\ AtStep("act")
    /\ \/ /\ Cur.name \notin ThrowingHelpers
          /\ done' = Append(done, Cur.name)
          /\ variants' = AfterAct(Cur.name)
          /\ Advance
          /\ UNCHANGED <<reg, obs>>
       \/ /\ Cur.name \notin ThrowingHelpers
          /\ Raise(Error("error", Cur.name, 0))
          /\ UNCHANGED <<done, variants>>
       \/ /\ Cur.name \in ThrowingHelpers
          /\ Raise(Error("hidden", Cur.name, 0))
          /\ UNCHANGED <<done, variants>>
    /\ UNCHANGED <<scenario, pollVars>>
    /\ UNCHANGED runnerVars

\* a wait of a page object or a web-first assertion with its own timeout
StepWait ==
    /\ AtStep("wait")
    /\ \/ /\ Advance
          /\ obs' = Append(obs, Obs("wait", Cur.name, TRUE))
          /\ UNCHANGED reg
       \/ Raise(Error("error", Cur.name, 0))
    /\ UNCHANGED <<scenario, done, pollVars>>
    /\ UNCHANGED variants
    /\ UNCHANGED runnerVars

\* a read of the page: it returns a value or raises
StepRead ==
    /\ AtStep("read")
    /\ \/ \E v \in ReadValues(Cur.name) :
              /\ reg' = v
              /\ obs' = Append(obs, Obs("read", Cur.name, v))
              /\ Advance
       \/ Raise(Error("error", Cur.name, 0))
    /\ UNCHANGED <<scenario, done, pollVars>>
    /\ UNCHANGED variants
    /\ UNCHANGED runnerVars

\* expect(value).toBe(want) on the value last read
StepExpect ==
    /\ AtStep("expect")
    /\ IF reg = Cur.want
       THEN /\ Advance
            /\ obs' = Append(obs, Obs("expect", LastRead, Cur.want))
            /\ UNCHANGED reg
       ELSE Raise(Error("assertion", Cur.name, 0))
    /\ UNCHANGED <<scenario, done, pollVars>>
    /\ UNCHANGED variants
    /\ UNCHANGED runnerVars

\* if (value is not want) { testInfo.skip(true, ...); return }
StepSkipUnless ==
    /\ AtStep("skipUnless")
    /\ IF reg = Cur.want
       THEN scPc' = scPc + 1 /\ UNCHANGED scOutcome
       ELSE scOutcome' = "skipped" /\ UNCHANGED scPc
    /\ UNCHANGED <<scenario, reg, done, thrown, failure, obs, pollVars>>
    /\ UNCHANGED variants
    /\ UNCHANGED runnerVars

\* if (value is want) { block }
StepIf ==
    /\ AtStep("if")
    /\ scPc' = IF reg = Cur.want THEN scPc + 1 ELSE scPc + 1 + Cur.jump
    /\ UNCHANGED <<scenario, scOutcome, reg, done, thrown, failure, obs, pollVars>>
    /\ UNCHANGED variants
    /\ UNCHANGED runnerVars

\* the last step is behind: the scenario has passed
ScenarioPasses ==
    /\ scOutcome = "running"
    /\ scPc = Len(Script) + 1
    /\ scOutcome' = "passed"
    /\ UNCHANGED <<scenario, scPc, reg, done, thrown, failure, obs, pollVars>>
    /\ UNCHANGED variants
    /\ UNCHANGED runnerVars

----------------------------------------------------------------------------
(* expect(predicate).toPass({ timeout }): the poll of spec section 4.2.    *)
(* The predicate is invoked at once and then again after every polling     *)
(* interval; the poll returns at the first invocation that passes, and     *)
(* throws a timeout error that carries the last assertion failure once     *)
(* the timeout has elapsed.                                                *)

\* the regular polling interval, in milliseconds
PollIntervalMs == 1000

\* a poll that sleeps one interval before its first look
PollFirstAfterInterval ==
    "sleeping"

\* where a poll starts: with an invocation of its predicate
PollFirst ==
    "calling"

\* where the poll stands after an invocation: it returns when the
\* predicate passed, and sleeps for one interval when it did not
PollAfterInvoke(passed) ==
    IF passed THEN "passed" ELSE "sleeping"

\* a poll that never looks at its timeout
PollAfterSleepForever(t, timeout) ==
    "calling"

\* where the poll stands after a sleep that ended t ms after its start
PollAfterSleep(t, timeout) ==
    IF t >= timeout THEN "timedOut" ELSE "calling"

\* an invocation begun without awaiting the one before
PollAfterBeginNoAwait ==
    "calling"

\* where the poll stands once it has invoked its predicate: it awaits the
\* invocation
PollAfterBegin ==
    "awaiting"

\* nothing seen yet of the Generate Again button
Unread == [visible |-> "unread", loading |-> "unread"]

\* the first await of a predicate: isGenerateAgainButtonClickable begins
\* with button.isVisible(), the predicates written in the scenarios with
\* their one read
PredicateStart(n) ==
    IF n = "isGenerateAgainButtonClickable" THEN "isVisible" ELSE "read"

\* await expect(async () => {...}).toPass({ timeout }) begins
PollStart ==
    /\ AtStep("poll")
    /\ pollState = "idle"
    /\ pollState' = PollFirst
    /\ pollT' = 0
    /\ pollN' = 0
    /\ pollLast' = 0
    /\ UNCHANGED <<scenario, scPc, scOutcome, reg, done, thrown, failure, obs>>
    /\ UNCHANGED predVars
    /\ UNCHANGED variants
    /\ UNCHANGED runnerVars

\* the poll invokes its predicate
PollInvoke ==
    /\ AtStep("poll")
    /\ pollState = "calling"
    /\ pollState' = PollAfterBegin
    /\ pollN' = pollN + 1
    /\ pollRunning' = pollRunning + 1
    /\ predPc' = PredicateStart(Cur.name)
    /\ predLook' = Unread
    /\ done' = IF Cur.act = "" THEN done ELSE Append(done, Cur.act)
    /\ UNCHANGED <<scenario, scPc, scOutcome, reg, thrown, failure, obs, pollT, pollLast, predVal>>
    /\ UNCHANGED variants
    /\ UNCHANGED runnerVars

\* const isVisible = await button.isVisible().catch(() => false);
\* if (!isVisible) return false
PredicateIsVisible ==
    /\ AtStep("poll")
    /\ pollRunning > 0
    /\ predPc = "isVisible"
    /\ \E r \in {"yes", "no", "threw"} :
           /\ predLook' = [predLook EXCEPT !.visible = r]
           /\ IF r = "yes"
              THEN predPc' = "getAttribute" /\ UNCHANGED predVal
              ELSE predPc' = "expect" /\ predVal' = FALSE
    /\ UNCHANGED <<scenario, scPc, scOutcome, reg, done, thrown, failure, obs>>
    /\ UNCHANGED <<pollState, pollT, pollN, pollLast, pollRunning>>
    /\ UNCHANGED variants
    /\ UNCHANGED runnerVars

\* const isLoading = await this.isGenerateAgainLoading(); return !isLoading
\*   isGenerateAgainLoading: className?.includes('ant-btn-loading') ?? false,
\*   where getAttribute may reject
PredicateGetAttribute ==
    /\ AtStep("poll")
    /\ pollRunning > 0
    /\ predPc = "getAttribute"
    /\ \E r \in {"yes", "no", "threw"} :
           /\ predLook' = [predLook EXCEPT !.loading = r]
           /\ IF r = "threw"
              THEN predPc' = "threw" /\ UNCHANGED predVal
              ELSE predPc' = "expect" /\ predVal' = (r = "no")
    /\ UNCHANGED <<scenario, scPc, scOutcome, reg, done, thrown, failure, obs>>
    /\ UNCHANGED <<pollState, pollT, pollN, pollLast, pollRunning>>
    /\ UNCHANGED variants
    /\ UNCHANGED runnerVars

\* const value = await read(): the one read of a predicate written in a
\* scenario returns, or rejects
PredicateRead ==
    /\ AtStep("poll")
    /\ pollRunning > 0
    /\ predPc = "read"
    /\ \/ \E v \in BOOLEAN : predVal' = v /\ predPc' = "expect"
       \/ predPc' = "threw" /\ UNCHANGED predVal
    /\ UNCHANGED <<scenario, scPc, scOutcome, reg, done, thrown, failure, obs>>
    /\ UNCHANGED <<pollState, pollT, pollN, pollLast, pollRunning, predLook>>
    /\ UNCHANGED variants
    /\ UNCHANGED runnerVars

\* expect(value).toBe(want) ends the invocation: it has passed when the
\* expect holds, and failed when the expect or a read before it threw
PredicateEnd ==
    /\ AtStep("poll")
    /\ pollRunning > 0
    /\ predPc \in {"expect", "threw"}
    /\ LET passed == predPc = "expect" /\ predVal = Cur.want IN
       /\ pollState' = PollAfterInvoke(passed)
       /\ pollLast' = IF passed THEN pollLast ELSE pollN
    /\ pollRunning' = pollRunning - 1
    /\ predPc' = "idle"
    /\ UNCHANGED <<scenario, scPc, scOutcome, reg, done, thrown, failure, obs>>
    /\ UNCHANGED <<pollT, pollN, predVal, predLook>>
    /\ UNCHANGED variants
    /\ UNCHANGED runnerVars

\* one polling interval passes
PollSleep ==
    /\ AtStep("poll")
    /\ pollState = "sleeping"
    /\ pollT' = pollT + PollIntervalMs
    /\ pollState' = PollAfterSleep(pollT + PollIntervalMs, Cur.timeout)
    /\ UNCHANGED <<scenario, scPc, scOutcome, reg, done, thrown, failure, obs, pollN, pollLast>>
    /\ UNCHANGED predVars
    /\ UNCHANGED variants
    /\ UNCHANGED runnerVars

\* the poll returns to its caller
PollPassed ==
    /\ AtStep("poll")
    /\ pollState = "passed"
    /\ pollState' = "idle"
    /\ reg' = IF Cur.catch = "false" THEN TRUE ELSE reg
    /\ obs' = Append(obs, IF Cur.catch = "false"
                          THEN Obs("read", Cur.name, TRUE)
                          ELSE Obs("poll", Cur.name, Cur.want))
    /\ predLook' = Unread
    /\ Advance
    /\ UNCHANGED <<scenario, done, pollT, pollN, pollLast, pollRunning, predPc, predVal>>
    /\ UNCHANGED variants
    /\ UNCHANGED runnerVars

\* the poll throws its timeout error, which holds the last assertion failure
PollTimedOut ==
    /\ AtStep("poll")
    /\ pollState = "timedOut"
    /\ pollState' = "idle"
    /\ Raise(Error("timeout", Cur.name, pollLast))
    /\ UNCHANGED <<scenario, done, pollT, pollN, pollLast, pollRunning, predPc, predVal, predLook>>
    /\ UNCHANGED variants
    /\ UNCHANGED runnerVars

----------------------------------------------------------------------------
(* One scenario, step by step *)

InitScenario ==
    /\ appEnv = "local"
    /\ configVariant = "single"
    /\ ci = FALSE
    /\ fs = [p \in Paths |-> AbsentFile]
    /\ InitRest
    /\ EnvLoaded
    /\ scenario \in Scenarios
    /\ variants \in IF scenario \in FormScenarios THEN 0..VariantLimit ELSE {0}
    /\ scPc = 1
    /\ scOutcome = "running"
    /\ reg = FALSE
    /\ done = <<>>
    /\ thrown = <<>>
    /\ failure = NoFailure
    /\ obs = <<>>
    /\ pollState = "idle"
    /\ pollT = 0
    /\ pollN = 0
    /\ pollLast = 0
    /\ pollRunning = 0
    /\ predPc = "idle"
    /\ predVal = FALSE
    /\ predLook = [visible |-> "unread", loading |-> "unread"]

ScenarioStep ==
    \/ StepAct
    \/ StepWait
    \/ StepRead
    \/ StepExpect
    \/ StepSkipUnless
    \/ StepIf
    \/ ScenarioPasses
    \/ PollStart
    \/ PollInvoke
    \/ PredicateIsVisible
    \/ PredicateGetAttribute
    \/ PredicateRead
    \/ PredicateEnd
    \/ PollSleep
    \/ PollPassed
    \/ PollTimedOut

\* one execution of one scenario of the chromium project
SpecScenario == InitScenario /\ [][ScenarioStep]_vars

----------------------------------------------------------------------------
(* Properties of the poll *)

\* a poll is under way
Polling == pollState # "idle"

\* every invocation of the current poll so far has failed
NeverPassed == pollN >= 1 /\ pollLast = pollN

(* C11 -- A poll whose predicate passes on its first invocation returns   *)
(* success at once: no polling interval has been waited for, and the      *)
(* timeout has not begun to elapse.                                       *)
C11_FirstPassReturnsAtOnce ==
    (pollState = "passed" /\ pollN = 1) => (pollT = 0 /\ pollLast = 0)

\* C11's case: the first invocation of a poll has passed and the poll is
\* about to return to the scenario
C11_Witness ==
    /\ pollState = "passed"
    /\ pollN = 1
    /\ pollT = 0
    /\ ENABLED PollPassed

(* C12 -- A poll with timeout T whose predicate never passes terminates:  *)
(* the predicate is invoked only while less than T has elapsed, so at     *)
(* most once per interval begun before T, and the timeout is reported at  *)
(* an elapsed time of at least T and less than T plus one interval.       *)
C12_NeverPassingPollTerminates ==
    Polling =>
        /\ pollT < Cur.timeout + PollIntervalMs
        /\ (pollN - 1) * PollIntervalMs < Cur.timeout
        /\ pollState = "calling" => pollT < Cur.timeout
        /\ pollState = "timedOut" => (pollT >= Cur.timeout /\ NeverPassed)

\* C12's case: the predicate of a 5 second poll has failed five times and
\* the poll reports the timeout
C12_Witness ==
    /\ pollState = "timedOut"
    /\ NeverPassed
    /\ pollN = 5
    /\ pollT = 5000
    /\ ENABLED PollTimedOut

----------------------------------------------------------------------------
(* Properties of errors in scenarios *)

\* the errors raised so far that are poll timeouts
Timeouts == {i \in 1..Len(thrown) : thrown[i].kind = "timeout"}

\* the scenario has failed with error e
FailedWith(e) == scOutcome = "failed" /\ failure = e

SitesReturningFalse ==
    {"isLaunchNewCampaignVisible", "isStoryboardTabVisible",
     "isGenerateButtonVisible", "storyboardTabIsVisible",
     "isGenerateAgainButtonClickable", "getPreviewContainerDimensions",
     "addHeadlineVariantBtnIsVisible", "isCarouselVisible"}

\* waits whose error ends in testInfo.skip
SitesSkipping ==
    {"storyboardTabToBeEnabled", "regenerateModalNotToBeVisible"}

----------------------------------------------------------------------------
(* Properties of scenario retries *)

\* the scenario of w has begun an execution in this run
Started(w) == workerPc[w] \notin {"waiting", "skipped"}

\* the counts of retries and executions the configuration allows
RetryCounts ==
    \A w \in Workers :
        /\ (ci => execs[w] <= 3) /\ (~ci => execs[w] <= 1)
        /\ (ci => retry[w] <= 2) /\ (~ci => retry[w] = 0)
        /\ execs[w] = IF Started(w) THEN retry[w] + 1 ELSE 0
        /\ (workerPc[w] = "failed" /\ ci) => execs[w] = 3

\* within a run: a passed scenario is not executed again; a further
\* execution follows an execution that failed and begins at the start, with
\* the context that reads the storage state; and the step in which a
\* scenario fails or is retried leaves every sibling as it is
RetrySteps ==
    run' = run =>
        \A w \in Workers :
            /\ workerPc[w] = "passed" =>
                   (workerPc'[w] = "passed" /\ execs'[w] = execs[w])
            /\ execs'[w] # execs[w] =>
                   (execs'[w] = execs[w] + 1 /\ workerPc'[w] = "reading")
            /\ retry'[w] # retry[w] =>
                   (retry'[w] = retry[w] + 1 /\ workerPc[w] \in {"reading", "running"})
            /\ (retry'[w] # retry[w] \/ (workerPc'[w] = "failed" /\ workerPc[w] # "failed")) =>
                   \A v \in Workers \ {w} :
                       /\ workerPc'[v] = workerPc[v]
                       /\ retry'[v] = retry[v]
                       /\ execs'[v] = execs[v]
                       /\ loaded'[v] = loaded[v]

(* C15 -- A scenario whose execution fails is executed again from its     *)
(* start at most 2 more times in CI and not at all elsewhere; a passing   *)
(* execution ends the retries; so a scenario that starts is executed at   *)
(* most 3 times in CI and exactly once elsewhere, it ends failed in CI    *)
(* only after 3 executions, and a scenario that fails or is retried       *)
(* leaves its siblings untouched.                                         *)
C15_FailedScenarioRetriedWhole ==
    [](RetryCounts) /\ [][RetrySteps]_vars

\* C15's case: in CI one scenario has passed on its third execution and its
\* sibling has failed three times
C15_Witness ==
    /\ ci
    /\ workerPc["w1"] = "passed" /\ execs["w1"] = 3 /\ retry["w1"] = 2
    /\ workerPc["w2"] = "failed" /\ execs["w2"] = 3

----------------------------------------------------------------------------
(* env.ts: the environment is parsed when the module is first imported.    *)
(* src/unnamed/part_005 holds two env.ts: lines 1-66, whose APP_ENV is     *)
(* z.enum(['local', 'dev', 'staging']), and lines 68-123, whose APP_ENV is *)
(* z.string().                                                             *)

EnvVariants == {"enum", "string"}

\* process.env[name]: undefined, or a string
Unset == [set |-> FALSE, val |-> <<>>]
Given(v) == [set |-> TRUE, val |-> v]

\* z.string().email(): one "@" after a non-empty local part, and a domain
\* of a non-empty label, a "." and at least two more characters
IsEmail(s) ==
    \E i \in 2..Len(s) :
        /\ s[i] = "@"
        /\ \A j \in 1..Len(s) : s[j] = "@" => j = i
        /\ \E d \in (i + 2)..(Len(s) - 2) : s[d] = "."

\* the values of process.env the load is tried on
AppEnvInputs ==
    {[set |-> FALSE, val |-> ""]}
    \cup {[set |-> TRUE, val |-> v] : v \in {"local", "dev", "staging", "production", ""}}

EmailInputs ==
    {Unset, Given(<<>>), Given(<<"a", "d", "m", "i", "n">>),
     Given(<<"a", "@">>), Given(<<"@", "x", ".", "i", "o">>),
     Given(<<"a", "@", "x", ".", "i", "o">>)}

PasswordInputs == {Unset, Given(<<>>), Given(<<"p", "w">>)}

\* APP_ENV: appEnvEnum.default('local') or z.string().default('local')
AppEnvIssue(variant, x) ==
    /\ x.set
    /\ variant = "enum"
    /\ x.val \notin {"local", "dev", "staging"}

AppEnvValue(x) == IF x.set THEN x.val ELSE "local"

\* HQ_ADMIN_AUTH_EMAIL: z.string().email(...)
EmailIssue(x) == ~x.set \/ ~IsEmail(x.val)

\* HQ_ADMIN_AUTH_PASSWORD: z.string().min(1, ...)
PasswordIssue(x) == ~x.set \/ Len(x.val) < 1

\* result.error.issues, by path
Issues(variant, pe) ==
    {p \in {"APP_ENV"} : AppEnvIssue(variant, pe.APP_ENV)}
    \cup {p \in {"HQ_ADMIN_AUTH_EMAIL"} : EmailIssue(pe.HQ_ADMIN_AUTH_EMAIL)}
    \cup {p \in {"HQ_ADMIN_AUTH_PASSWORD"} : PasswordIssue(pe.HQ_ADMIN_AUTH_PASSWORD)}

Msg_validationFailed == "Environment validation failed"

InitEnv ==
    /\ appEnv = "local"
    /\ configVariant = "single"
    /\ ci = FALSE
    /\ fs = [p \in Paths |-> AbsentFile]
    /\ InitRest
    /\ NoScenario
    /\ envVariant \in EnvVariants
    /\ procEnv \in [APP_ENV : AppEnvInputs,
                    HQ_ADMIN_AUTH_EMAIL : EmailInputs,
                    HQ_ADMIN_AUTH_PASSWORD : PasswordInputs]
    /\ envPc = "importing"
    /\ envData = [APP_ENV |-> ""]
    /\ envError = ""
    /\ begun = FALSE

\* export const env = parseEnv()
ImportEnv ==
    /\ envPc = "importing"
    /\ IF Issues(envVariant, procEnv) # {}
       THEN /\ envPc' = "threw"
            /\ envError' = Msg_validationFailed
            /\ UNCHANGED envData
       ELSE /\ envPc' = "loaded"
            /\ envData' = [APP_ENV |-> AppEnvValue(procEnv.APP_ENV)]
            /\ UNCHANGED envError
    /\ UNCHANGED <<envVariant, procEnv, begun>>
    /\ UNCHANGED <<scenarioVars, envVars, fs, nowMs, runVars, setupVars, projectSetup, workVars>>

\* the first step of a test in a file that imports env: the import has
\* been evaluated, and it did not throw
BeginTest ==
    /\ envPc = "loaded"
    /\ ~begun
    /\ begun' = TRUE
    /\ UNCHANGED <<envVariant, procEnv, envPc, envData, envError>>
    /\ UNCHANGED <<scenarioVars, envVars, fs, nowMs, runVars, setupVars, projectSetup, workVars>>

LoadEnv ==
    \/ ImportEnv
    \/ BeginTest

\* the load of env.ts on every environment within the inputs
SpecEnv == InitEnv /\ [][LoadEnv]_vars

\* what the environment must not be
InvalidEnvironment ==
    \/ ~procEnv.HQ_ADMIN_AUTH_EMAIL.set
    \/ ~IsEmail(procEnv.HQ_ADMIN_AUTH_EMAIL.val)
    \/ ~procEnv.HQ_ADMIN_AUTH_PASSWORD.set
    \/ procEnv.HQ_ADMIN_AUTH_PASSWORD.val = <<>>
    \/ procEnv.APP_ENV.set /\ procEnv.APP_ENV.val \notin {"local", "dev", "staging"}

(* C16 -- No test step begins before env.ts has loaded; the load throws   *)
(* 'Environment validation failed' when the email is missing or not an    *)
(* email, the password is missing or empty, or APP_ENV is set to a value  *)
(* outside {local, dev, staging}; otherwise it succeeds, and an unset     *)
(* APP_ENV becomes 'local'.  The env.ts whose APP_ENV is z.string()       *)
(* accepts any APP_ENV.                                                   *)
C16_InvalidEnvironmentThrows ==
    /\ begun => envPc = "loaded"
    /\ envPc # "importing" =>
           IF InvalidEnvironment
           THEN envPc = "threw" /\ envError = Msg_validationFailed
           ELSE /\ envPc = "loaded"
                /\ ~procEnv.APP_ENV.set => envData.APP_ENV = "local"

----------------------------------------------------------------------------
(* Properties of the scenarios' actions *)

\* how many times action a has been executed
Count(a) == Cardinality({i \in 1..Len(done) : done[i] = a})

\* this step executes action a
Executes(a) == done' = Append(done, a)

\* the variant-limit scenario stands behind its loop, at the final read of
\* the add button or at the expect on it
BehindLoop ==
    /\ scenario = "variantLimit"
    /\ scPc \in {Len(Script) - 1, Len(Script)}

\* the variant-limit scenario: clicks and variants in every state
VariantLimitCounts ==
    scenario = "variantLimit" =>
        /\ Count("addHeadlineVariant") <= 5
        /\ variants <= 5
        /\ BehindLoop => variants = 5
        /\ (scPc = Len(Script) /\ scOutcome = "running") => reg = TRUE
        /\ (scOutcome = "passed" /\ reg = TRUE) => variants = 5
        /\ failure.kind # "assertion"

\* the variant-limit scenario: a click on Add Headline Variant follows a
\* read that found the button enabled, and adds one variant
VariantLimitClicks ==
    (scenario = "variantLimit" /\ Executes("addHeadlineVariant")) =>
        /\ reg = FALSE
        /\ variants < 5
        /\ variants' = variants + 1

(* C17 -- In the variant-limit scenario, for every initial number of      *)
(* headline variants from 0 to 5 and with the Add Headline Variant button *)
(* visible, the loop clicks the button only after it has read it as not   *)
(* disabled, clicks it at most 5 times, and leaves the form with exactly  *)
(* 5 variants and the button disabled, so the final expect passes.        *)
C17_VariantLoopStopsAtLimit ==
    [](VariantLimitCounts) /\ [][VariantLimitClicks]_vars

\* C17's case: from no variants the loop has clicked five times and the
\* scenario has passed on the disabled button
C17_Witness ==
    /\ scenario = "variantLimit"
    /\ scOutcome = "passed"
    /\ reg = TRUE
    /\ variants = 5
    /\ Count("addHeadlineVariant") = 5

(* C19 -- A carousel navigation scenario that reaches its click on next   *)
(* or prev is not failed by the click helper itself: the click is         *)
(* performed, after which the scenario compares the active slide index    *)
(* with (i + 1) mod slideCount or (i - 1 + slideCount) mod slideCount.    *)
(* clickCarouselNext and clickCarouselPrev only throw.                    *)
C19_CarouselClicksMoveActiveSlide ==
    scenario \in {"carouselNext", "carouselPrev"} =>
        /\ failure.kind # "hidden"
        /\ \A i \in 1..Len(thrown) : thrown[i].site \notin ThrowingHelpers

\* the state-changing actions of the lifecycle scenario
LifecycleTriggers ==
    {"clickUpdateCampaignBrief", "clickGenerateStoryboard", "clickSave",
     "clickGenerate", "confirmDelete"}

\* no trigger has been executed twice, and each has been executed once
\* when the scenario has passed
TriggersOnce ==
    scenario = "lifecycle" =>
        \A a \in LifecycleTriggers :
            /\ Count(a) <= 1
            /\ scOutcome = "passed" => Count(a) = 1

\* an invocation of a polled predicate executes no action
PollsOnlyRead ==
    (scenario = "lifecycle" /\ pollN' # pollN) => done' = done

(* C20 -- In the campaign lifecycle scenario the clicks on Update         *)
(* Campaign Brief, Generate Storyboard & Copy, Save, Generate and the     *)
(* delete confirmation are steps of their own, outside every polled       *)
(* predicate: none is executed twice in one execution of the scenario,    *)
(* and each exactly once in an execution that passes, however many times  *)
(* the polls invoke their predicates.                                     *)
C20_TriggersOutsidePolls ==
    [](TriggersOnce) /\ [][PollsOnlyRead]_vars

\* C20's case: the lifecycle scenario has passed, its last poll having
\* invoked its predicate five times
C20_Witness ==
    /\ scenario = "lifecycle"
    /\ scOutcome = "passed"
    /\ pollN = 5
    /\ \A a \in LifecycleTriggers : Count(a) = 1

----------------------------------------------------------------------------
(* Properties of what the scenarios observe *)

\* the place in obs of the first observation of this kind, name and value,
\* 0 when there is none
Idx(kind, n, v) ==
    LET S == {i \in 1..Len(obs) : obs[i] = Obs(kind, n, v)} IN
    IF S = {} THEN 0 ELSE CHOOSE i \in S : \A j \in S : i <= j

\* a < b < c < ... along a sequence of places, none of them 0
InOrder(places) ==
    /\ \A i \in 1..Len(places) : places[i] > 0
    /\ \A i \in 1..(Len(places) - 1) : places[i] < places[i + 1]

\* Steps 10-12: the button was polled until loading, the tab was waited
\* for, and the tab was asserted visible, spinning and disabled, in this order
InProgressObserved ==
    <<Idx("poll", "isGenerateStoryboardLoading", TRUE),
      Idx("wait", "waitForStoryboardTab", TRUE),
      Idx("expect", "isStoryboardTabVisible", TRUE),
      Idx("expect", "isStoryboardTabSpinning", TRUE),
      Idx("expect", "isStoryboardTabDisabled", TRUE)>>

\* Steps 13-14: waitForStoryboardTabEnabled returned, then the tab was
\* asserted no longer spinning, then enabled
CompletionObserved ==
    <<Idx("wait", "waitForStoryboardTabEnabled", TRUE),
      Idx("expect", "isStoryboardTabSpinning", FALSE),
      Idx("expect", "isStoryboardTabEnabled", TRUE)>>

(* C21 -- In the campaign lifecycle scenario the loading button is polled *)
(* only after the click on Generate Storyboard & Copy; by the time        *)
(* waitForStoryboardTabEnabled has returned, the button has been observed *)
(* loading and the tab asserted visible, spinning and disabled, in that   *)
(* order; the tab is asserted no longer spinning and enabled only after   *)
(* that wait returned; and the tab is clicked, and the scenario passes,   *)
(* only after the enabled tab was asserted.                               *)
C21_InProgressBeforeEnabled ==
    scenario = "lifecycle" =>
        LET waited == CompletionObserved[1] IN
        /\ (AtStep("poll") /\ Cur.name = "isGenerateStoryboardLoading")
               => Count("clickGenerateStoryboard") = 1
        /\ InProgressObserved[1] > 0 => Count("clickGenerateStoryboard") = 1
        /\ waited > 0 => InOrder(InProgressObserved \o <<waited>>)
        /\ \A k \in 1..Len(obs) :
               (obs[k].kind = "expect"
                /\ \/ obs[k].name = "isStoryboardTabEnabled"
                   \/ obs[k] = Obs("expect", "isStoryboardTabSpinning", FALSE))
               => (waited > 0 /\ waited < k)
        /\ CompletionObserved[3] > 0 => InOrder(CompletionObserved)
        /\ Count("clickStoryboardTab") > 0 => CompletionObserved[3] > 0
        /\ scOutcome = "passed" => CompletionObserved[3] > 0

\* C21's case: the tab was asserted spinning and disabled, the wait for the
\* enabled tab returned, the tab was asserted enabled and has been clicked
C21_Witness ==
    /\ scenario = "lifecycle"
    /\ scOutcome = "running"
    /\ InOrder(InProgressObserved \o CompletionObserved)
    /\ done # <<>>
    /\ done[Len(done)] = "clickStoryboardTab"

\* at most one invocation of the predicate is in flight, the poll awaits it,
\* and a poll that holds a passed invocation only returns
OneInvocationAtATime ==
    /\ pollRunning <= 1
    /\ pollRunning = 1 <=> pollState = "awaiting"
    /\ pollRunning = 1 <=> predPc # "idle"
    /\ pollState = "passed" =>
           /\ ENABLED PollPassed
           /\ ~ENABLED PollInvoke
           /\ ~ENABLED PollSleep

\* the predicate is invoked only by a poll that has no invocation in
\* flight and has seen none pass; a passed poll returns without another
\* invocation; no invocation happens outside a poll
InvocationsInSequence ==
    /\ pollRunning' > pollRunning =>
           /\ pollRunning = 0
           /\ pollState = "calling"
           /\ pollN = 0 \/ pollLast = pollN
    /\ pollState = "passed" => (pollState' = "idle" /\ pollN' = pollN /\ scPc' = scPc + 1)
    /\ pollState = "idle" => pollN' \in {pollN, 0}

(* C22 -- Once an invocation of a polled predicate has passed, the poll   *)
(* returns and the predicate is not invoked again; and the predicate is   *)
(* invoked again only after the invocation before it has completed, so    *)
(* two invocations are never in flight at once.                           *)
C22_PollInvocationsSequential ==
    [](OneInvocationAtATime) /\ [][InvocationsInSequence]_vars

\* C22's case: the third invocation of waitForGenerateAgainClickable's
\* predicate is in flight, two having completed and failed, and it has seen
\* the button visible
C22_Witness ==
    /\ pollState = "awaiting"
    /\ AtStep("poll")
    /\ Cur.name = "isGenerateAgainButtonClickable"
    /\ pollN = 3
    /\ pollLast = 2
    /\ pollRunning = 1
    /\ predPc = "getAttribute"

\* the scenarios of the Storyboard and Copy suite, which run its beforeEach
InSuite == scenario \in Scenarios \ {"lifecycle"}

\* navigateToPage up to its return true: the URL was read without
\* '/create', the tab was seen visible, the tab became enabled, and (after
\* the click) the storyboard form became visible
NavigationObserved ==
    <<Idx("read", "urlIncludesCreate", FALSE),
      Idx("read", "storyboardTabIsVisible", TRUE),
      Idx("wait", "storyboardTabToBeEnabled", TRUE),
      Idx("wait", "waitForPageLoad", TRUE)>>

\* navigateToPage has returned true
NavigatedTrue == NavigationObserved[4] > 0

\* navigateToPage has returned false: at '/create', at a tab that is not
\* visible, or at a tab that did not become enabled
NavigatedFalse ==
    \/ Idx("read", "urlIncludesCreate", TRUE) > 0
    \/ Idx("read", "storyboardTabIsVisible", FALSE) > 0
    \/ \E i \in 1..Len(thrown) : thrown[i].site = "storyboardTabToBeEnabled"

\* the scenario is skipped, or stands at the testInfo.skip that skips it
SkippedOrSkipping ==
    \/ scOutcome = "skipped"
    \/ /\ scOutcome = "running"
       /\ Cur.op = "skipUnless"
       /\ reg # Cur.want

(* C23 -- In the current Storyboard and Copy suite, navigateToPage has    *)
(* returned true only after the tab was observed visible and enabled, was *)
(* clicked, and the storyboard form became visible; the tab is clicked    *)
(* only after it was observed visible and enabled; when the URL contains  *)
(* '/create', the tab is not visible or the tab does not become enabled,  *)
(* navigateToPage returns false having clicked nothing, and beforeEach    *)
(* skips the scenario; no step of a scenario body runs unless             *)
(* navigateToPage returned true.                                          *)
C23_NavigateThenRunOrSkip ==
    InSuite =>
        /\ NavigatedTrue =>
               /\ InOrder(NavigationObserved)
               /\ done # <<>> /\ done[1] = "clickStoryboardTab"
        /\ done # <<>> =>
               /\ done[1] = "clickStoryboardTab"
               /\ InOrder(SubSeq(NavigationObserved, 1, 3))
        /\ NavigatedFalse =>
               /\ done = <<>>
               /\ ~NavigatedTrue
               /\ SkippedOrSkipping
               /\ scPc <= Len(BeforeEach)
        /\ (scPc > Len(BeforeEach) \/ Len(done) > 1 \/ scOutcome = "passed")
               => NavigatedTrue

\* C23's case: navigateToPage returned true and the body of the preview
\* style scenario has selected the landscape preview
C23_Witness ==
    /\ scenario = "previewStyle"
    /\ NavigatedTrue
    /\ scPc > Len(BeforeEach)
    /\ done = <<"clickStoryboardTab", "selectLandscapePreview">>

----------------------------------------------------------------------------
(* Properties of the variant operations *)

\* adds and deletes of headline variants executed so far
VariantOps == Count("addHeadlineVariant") + Count("deleteHeadlineVariant")

(* C24 -- Every add or delete of a headline variant that a scenario or a  *)
(* scenario helper performs comes after a read, in the same execution,    *)
(* that found the Add Headline Variant button visible, and none is        *)
(* performed after that read returned false.                              *)
(* ensureMultipleVariantsForCarousel adds a variant after reading only    *)
(* isAddHeadlineVariantDisabled.                                          *)
C24_VariantOpsFollowVisibleCheck ==
    InSuite =>
        /\ VariantOps > 0 => Idx("read", "addHeadlineVariantBtnIsVisible", TRUE) > 0
        /\ Idx("read", "addHeadlineVariantBtnIsVisible", FALSE) > 0 => VariantOps = 0

\* where a scenario stands when its call of
\* ensureMultipleVariantsForCarousel has returned true: behind the helper's
\* last step
AfterEnsure(sc) ==
    CASE sc = "multipleSlides" -> Len(BeforeEach) + 4 + Len(EnsureMultipleVariantsForCarousel) + 1
      [] sc \in {"carouselNext", "carouselPrev"} ->
             Len(BeforeEach) + 6 + Len(EnsureMultipleVariantsForCarousel) + 1
      [] OTHER -> 0

\* ensureMultipleVariantsForCarousel has returned true to the scenario
EnsureReturnedTrue ==
    /\ scOutcome = "running"
    /\ scPc = AfterEnsure(scenario)

\* ensureMultipleVariantsForCarousel has returned false: the scenario was
\* skipped at the return of the helper
EnsureReturnedFalse ==
    /\ scOutcome = "skipped"
    /\ scPc = AfterEnsure(scenario) - Len(AddVariantBlock) + 1

(* C25 -- Whenever ensureMultipleVariantsForCarousel returns true, at     *)
(* least 2 headline variants exist; it returns false only when a variant  *)
(* was needed and the Add Headline Variant button was disabled, and then  *)
(* it has clicked nothing.  The helper adds a variant only when there is  *)
(* none, so it returns true with one variant.                             *)
C25_EnsureLeavesTwoVariants ==
    /\ EnsureReturnedTrue => variants >= 2
    /\ EnsureReturnedFalse =>
           /\ Idx("read", "headlineVariantsCountBelow1", TRUE) > 0
           /\ Idx("read", "isAddHeadlineVariantDisabled", TRUE) > 0
           /\ Count("addHeadlineVariant") = 0
           /\ done = <<"clickStoryboardTab">>

----------------------------------------------------------------------------
(* Further properties of the session cache *)

\* the entries isTokenExpired inspects: the first token-like entry of each
\* origin
Inspected(origins) == {ij \in EntryIdx(origins) : IsFirstTokenEntry(origins, ij)}

(* C26 -- Only the first entry of each origin whose key contains 'token'  *)
(* or 'auth' is inspected, origin by origin: the snapshot is judged       *)
(* expired, and the login performed, whenever the inspected entry of some *)
(* origin is a JWT whose exp is earlier than now, whatever the inspected  *)
(* entries of the origins before it; and when no inspected entry is such  *)
(* a JWT, an expired JWT further down an origin changes nothing: a file   *)
(* younger than 23 hours is judged usable.  The code takes exp = 0 for no *)
(* exp at all.                                                            *)
C26_FirstTokenPerOriginDecides ==
    (Decided /\ seen.file.kind = "snapshot") =>
        /\ (\E ij \in Inspected(seen.file.origins) :
                IsExpiredJwt(EntryAt(seen.file.origins, ij).value, seen.now))
           => decision = "login"
        /\ (/\ Len(seen.file.origins) > 0
            /\ SeenAge < maxAgeMs
            /\ \A ij \in Inspected(seen.file.origins) :
                   ~IsExpiredJwt(EntryAt(seen.file.origins, ij).value, seen.now))
           => decision = "skip"

\* lines 47-56 have all completed: the login was submitted, 'Stores /
\* Branches' was seen, and the flag was set
LoginConfirmed ==
    ops = <<"goto", "fillEmail", "fillPassword", "clickLogin", "expectVisible", "setFlag">>

\* the file holds 'hq-admin.campaignAi' in the localStorage of an origin
HasFlag(file) ==
    /\ file.kind = "snapshot"
    /\ \E ij \in EntryIdx(file.origins) :
           EntryAt(file.origins, ij).name = Key_campaignAi

\* an execution of the setup test that has thrown has left the auth file
\* as it read it; a setup project that failed has written nothing in its
\* run; and a file written in this run was written after the confirmed
\* login and holds the flag
FileAsFoundUnlessConfirmed ==
    /\ setupPc = "failed" =>
           /\ fs[AuthFilePath] = seen.file
           /\ ~LoginConfirmed \/ writes = 0
    /\ projectSetup = "failed" =>
           /\ writes = 0
           /\ fs[AuthFilePath] = seen.file
           /\ fs[AuthFilePath].kind = runStartKind
    /\ writes > 0 =>
           /\ LoginConfirmed
           /\ HasFlag(persisted)
           /\ fs[AuthFilePath] = persisted

\* the file changes only in the step that ends line 58, after the
\* confirmed login, and to a snapshot that holds the flag; a step that
\* throws changes no file
WritesOnlyAfterLogin ==
    /\ fs' # fs =>
           /\ setupPc = "writing"
           /\ setupPc' = "passed"
           /\ LoginConfirmed
           /\ HasFlag(fs'[AuthFilePath])
           /\ \A p \in Paths \ {AuthFilePath} : fs'[p] = fs[p]
    /\ (setupPc' = "failed" /\ setupPc # "failed") => fs' = fs

JustDecided ==
    Decided /\ setupPc = AfterDecision(decision) /\ ops = <<>> /\ writes = 0

\* the times the judgment of one file is compared at: an hour before the
\* run, the run, and the times around which a token of the initial files
\* expires or a file of the initial mtimes turns 23 hours old
JudgeTimes ==
    {StartMs - HourMs, StartMs, StartMs + 1, StartMs + HourMs,
     StartMs + HourMs + 1, StartMs + maxAgeMs - HourMs + 1, StartMs + maxAgeMs}

(* C28 -- For a snapshot file that does not change, the judgment is       *)
(* monotone in time: judged expired at a time t, it is judged expired at  *)
(* every later time; and a file the setup did not judge usable is not     *)
(* judged usable by a later setup that reads the same file.               *)
C28_ExpiryMonotoneInTime ==
    (JustDecided /\ seen.file.kind = "snapshot") =>
        /\ LET expiredAt == {t \in JudgeTimes :
                                 isTokenExpired(seen.file.origins, seen.file.mtimeMs, t)}
           IN  \A t1 \in expiredAt : \A t2 \in JudgeTimes :
                   t1 <= t2 => t2 \in expiredAt
        /\ decision # "skip" =>
               \A t \in JudgeTimes :
                   t >= seen.now => SetupDecision(seen.file, t) # "skip"

\* C28's case: a file with a token that had an hour to live at the run and
\* was judged usable then; it is judged expired from one millisecond past
\* the token's exp on
C28_Witness ==
    /\ decision = "skip"
    /\ seen.file.kind = "snapshot"
    /\ Len(seen.file.origins) = 1
    /\ Inspected(seen.file.origins) # {}
    /\ ~isTokenExpired(seen.file.origins, seen.file.mtimeMs, StartMs + HourMs)
    /\ isTokenExpired(seen.file.origins, seen.file.mtimeMs, StartMs + HourMs + 1)
    /\ isTokenExpired(seen.file.origins, seen.file.mtimeMs, StartMs + maxAgeMs)

----------------------------------------------------------------------------
(* Properties of the campaign lifecycle scenario on the backend *)

\* campaigns this execution has created (the click on Update Campaign Brief
\* completed) and deleted (the click that confirms the deletion completed)
CampaignsCreated == Count("clickUpdateCampaignBrief")
CampaignsDeleted == Count("confirmDelete")

\* the execution of the scenario has ended
ExecutionEnded == scOutcome \in {"passed", "failed", "skipped"}

(* C29 -- Every campaign the campaign lifecycle scenario has created has  *)
(* been deleted when the execution ends, whatever its outcome, so also    *)
(* when a step between the creation and the deletion fails or times out.  *)
(* The scenario deletes the campaign in its last steps only and has no    *)
(* cleanup for an execution that fails before them.                       *)
C29_CreatedCampaignDeletedAtEnd ==
    (scenario = "lifecycle" /\ ExecutionEnded) => CampaignsDeleted = CampaignsCreated

----------------------------------------------------------------------------
(* Properties of waitForGenerateAgainClickable *)

\* the scenario is inside waitForGenerateAgainClickable
InWaitForGenerateAgainClickable ==
    AtStep("poll") /\ Cur.name = "isGenerateAgainButtonClickable"

\* what an invocation saw that found the button visible and then without
\* the 'ant-btn-loading' class
SeenClickable == [visible |-> "yes", loading |-> "no"]

\* inside the helper, the poll holds a passed invocation exactly when that
\* invocation saw the button clickable, and every invocation that has
\* completed without passing saw something else; no scenario has failed
\* with an error of the helper, and the helper's predicate raised nothing
\* but timeouts to the helper's catch
ClickableSeenIffPassed ==
    /\ InWaitForGenerateAgainClickable =>
           /\ pollState = "passed" => predLook = SeenClickable
           /\ pollState \in {"sleeping", "timedOut"} => predLook # SeenClickable
           /\ (pollState = "calling" /\ pollN > 0) => predLook # SeenClickable
           /\ (pollState = "awaiting" /\ predPc = "threw") => predLook # SeenClickable
    /\ failure.site # "isGenerateAgainButtonClickable"
    /\ \A i \in 1..Len(thrown) :
           thrown[i].site = "isGenerateAgainButtonClickable" => thrown[i].kind = "timeout"

\* the helper returns: the scenario goes on to its next step without a
\* failure, with true when the poll passed and with false when it timed out
ReturnsTrueIffPassed ==
    (InWaitForGenerateAgainClickable /\ pollState # "idle" /\ pollState' = "idle") =>
        /\ pollState \in {"passed", "timedOut"}
        /\ scPc' = scPc + 1
        /\ scOutcome' = "running"
        /\ failure' = failure
        /\ reg' = (pollState = "passed")
        /\ reg' = (predLook = SeenClickable)

(* C30 -- waitForGenerateAgainClickable never throws: it returns true     *)
(* exactly when an invocation of isGenerateAgainButtonClickable within    *)
(* the timeout saw the Generate Again button visible and then without the *)
(* 'ant-btn-loading' class, and returns false in every other case, a read *)
(* inside the predicate throwing included.                                *)
C30_WaitForClickableNeverThrows ==
    [](ClickableSeenIffPassed) /\ [][ReturnsTrueIffPassed]_vars

\* C30's case: the helper has returned false to the loading-state scenario
\* after a timeout whose last invocation saw the button visible and then had
\* the read of its class throw
C30_Witness ==
    /\ scenario = "loadingState"
    /\ AtStep("skipUnless")
    /\ scPc = Len(BeforeEach) + 2
    /\ reg = FALSE
    /\ thrown # <<>>
    /\ thrown[Len(thrown)].kind = "timeout"
    /\ thrown[Len(thrown)].site = "isGenerateAgainButtonClickable"
    /\ predLook = [visible |-> "yes", loading |-> "threw"]

====
